---------------------------- MODULE Spec2Model ----------------------------
(***************************************************************************)
(* Photoshare API: the Mongoose build (src/server.js) and the MySQL build  *)
(* (src/unnamed/part_000) of the same REST backend.                        *)
(*                                                                         *)
(* The variable `variant` is fixed by Init and selects the build; every    *)
(* handler is modelled once per build where the two differ.  A handler is  *)
(* cut at the awaits that touch the shared store: each action below is the *)
(* code between two such awaits (an await that touches nothing shared,     *)
(* such as bcrypt.hash, or that re-reads a row the handler has just        *)
(* written and nobody can change, is folded into the neighbouring step).   *)
(* Several requests are in flight at once, one per slot.                   *)
(***************************************************************************)
EXTENDS Integers, Sequences, FiniteSets, TLC

\* ----------------------------------------------------------------- bounds
MaxSlots == 2
MaxUsers == 2
MaxPhotos == 1
MaxComments == 1
MaxRequests == 4
MaxClock == 1
MaxListPhotos == 11
MaxTies == 1

\* ------------------------------------------------------ program constants
DefaultPage == 1
DefaultLimit == 10

VARIABLES
    variant,      \* "mongo" (src/server.js) or "mysql" (src/unnamed/part_000)
    users,        \* users collection / table, id = position
    photos,       \* photos collection / table, id = position
    photo_likes,  \* mysql only: rows of table photo_likes
    comments,     \* comments collection / table
    reqs,         \* the requests in flight, one per slot
    last,         \* the answer sent last
    listed,       \* the answer of the last GET /photos
    nreq,         \* number of requests received so far
    hist          \* history of the request(s) that ran last without interleaving

vars == <<variant, users, photos, photo_likes, comments, reqs, last, listed, nreq, hist>>
db == <<users, photos, photo_likes, comments>>

Slots == 1..MaxSlots
Names == {"n1", "n2"}
Passwords == {"p1", "p2"}
Texts == {"hi"}

Range(f) == {f[i] : i \in DOMAIN f}
Min(a, b) == IF a < b THEN a ELSE b
Max(a, b) == IF a > b THEN a ELSE b

NoDup(seq) == \A i, j \in DOMAIN seq : i # j => seq[i] # seq[j]

RECURSIVE SelectSeq2(_, _)
\* Array.prototype.filter with the predicate "element # x"
SelectSeq2(seq, x) ==
    IF seq = <<>> THEN <<>>
    ELSE IF Head(seq) = x THEN SelectSeq2(Tail(seq), x)
         ELSE <<Head(seq)>> \o SelectSeq2(Tail(seq), x)

\* ------------------------------------------------------------------ tokens
\* jwt.sign({ userId }, JWT_SECRET, { expiresIn: "7d" }): the token issued to
\* user u.  "jwtBadSig" is a token not signed with JWT_SECRET, "jwtExpired" one
\* signed with it more than 7 days ago.
TokenNames == <<"jwt1", "jwt2", "jwt3", "jwt4">>
JwtSign(u) == TokenNames[u]

\* jwt.verify(token, JWT_SECRET, cb): cb(err) unless the token is one of the
\* server's own, unexpired; cb(null, payload) with payload.userId otherwise.
\* `token` is a field of the split header: a sequence of atoms.
JwtVerify(token) ==
    IF Len(token) = 1 /\ \E u \in DOMAIN TokenNames : TokenNames[u] = token[1]
    THEN [err |-> FALSE,
          userId |-> CHOOSE u \in DOMAIN TokenNames : TokenNames[u] = token[1]]
    ELSE [err |-> TRUE, userId |-> 0]

\* A header value is a sequence of atoms: the separator " " and words that
\* hold no space.  String.prototype.split(" "): the fields between the
\* separators, an empty field where two separators are adjacent or one ends
\* the string.
RECURSIVE SplitFrom(_, _, _)
SplitFrom(str, i, cur) ==
    IF i > Len(str) THEN <<cur>>
    ELSE IF str[i] = " " THEN <<cur>> \o SplitFrom(str, i + 1, <<>>)
         ELSE SplitFrom(str, i + 1, Append(cur, str[i]))
Split(str) == SplitFrom(str, 1, <<>>)

AuthOk(u) == [ok |-> TRUE, status |-> 0, body |-> "", userId |-> u]
AuthFail(msg) == [ok |-> FALSE, status |-> 401, body |-> msg, userId |-> 0]

\* authRequired: <<>> stands for an absent (or empty) Authorization header;
\* the token is the second field of the header split at spaces, whatever the
\* first field is.
authRequired(authHeader) ==
    IF authHeader = <<>> THEN AuthFail("Hianyzo Authorization header")
    ELSE LET parts == Split(authHeader)
             token == IF Len(parts) >= 2 THEN parts[2] ELSE <<>>
         IN IF token = <<>> THEN AuthFail("Hianyzo token")
            ELSE IF JwtVerify(token).err THEN AuthFail("Ervenytelen token")
                 ELSE AuthOk(JwtVerify(token).userId)

\* The Authorization headers the clients send.  A token signed by the server
\* names a registered user: only login issues tokens, users are never deleted,
\* and login changes nothing in the store, so a client may hold the token of
\* any stored user ("jwt1" is the token of user 1, who is stored before any
\* photo request arrives).
Headers ==
    {<<>>}
    \cup {<<"Bearer", " ", JwtSign(u)>> : u \in 1..Len(users)}
    \cup {<<"Basic", " ", "jwt1">>,
          <<"jwt1">>,
          <<"Bearer", " ", " ", "jwt1">>,
          <<"Bearer", " ", "jwtBadSig">>,
          <<"Bearer", " ", "jwtExpired">>}

\* ------------------------------------------------------------ request slots
\* A slot holds a request whose handler is suspended at an await.
IdleSlot ==
    [pc |-> "idle", kind |-> "", hdr |-> <<>>, userId |-> 0, photo |-> 0,
     args |-> <<>>, local |-> <<>>, ver |-> 0]

NoAnswer ==
    [kind |-> "", hdr |-> <<>>, userId |-> 0, photo |-> 0, args |-> <<>>,
     status |-> 0, body |-> "", count |-> 0]

\* page / limit as computed by the handler: a number, or NaN
Num(n) == [nan |-> FALSE, val |-> n]
NaN == [nan |-> TRUE, val |-> 0]

NotListed ==
    [query |-> <<>>, status |-> 0, page |-> Num(0), limit |-> Num(0),
     total |-> 0, items |-> <<>>]

\* A new request takes the first idle slot (the slots are interchangeable).
Free(s) ==
    /\ reqs[s].pc = "idle"
    /\ \A t \in 1..(s - 1) : reqs[t].pc # "idle"
    /\ nreq < MaxRequests

\* res.status(status).json(...) of a request answered in its first step
Answer(kind, hdr, userId, photo, args, status, body, count) ==
    [kind |-> kind, hdr |-> hdr, userId |-> userId, photo |-> photo,
     args |-> args, status |-> status, body |-> body, count |-> count]

\* The handler of slot s suspends at an await on the store.
Suspend(s, kind, hdr, userId, photo, args, pc, local, ver) ==
    [reqs EXCEPT ![s] = [pc |-> pc, kind |-> kind, hdr |-> hdr,
        userId |-> userId, photo |-> photo, args |-> args,
        local |-> local, ver |-> ver]]

\* res.status(status).json(...) of the suspended request of slot s
Finish(s, status, body, count) ==
    Answer(reqs[s].kind, reqs[s].hdr, reqs[s].userId, reqs[s].photo,
           reqs[s].args, status, body, count)

Release(s) == [reqs EXCEPT ![s] = IdleSlot]

InFlight(pc) == Cardinality({s \in Slots : reqs[s].pc = pc})

\* ------------------------------------------------------------------- store
\* The path segment :id of a request: the id of a photo that is or may come
\* to be stored (1..MaxPhotos), a well-formed id no photo ever gets
\* (MaxPhotos + 1), or BadId, which stands for a segment that is no
\* well-formed id, such as "abc".  Mongoose cannot cast BadId to an ObjectId
\* (findById rejects with CastError); MySQL compares the string with the
\* numeric column as a number no AUTO_INCREMENT id equals.
BadId == MaxPhotos + 2
PhotoParams == 1..(MaxPhotos + 2)

PhotoExists(p) == p \in 1..Len(photos)

\* rows of photo_likes for photo p, as user ids in insertion order
RECURSIVE RowsOf(_, _)
RowsOf(rows, p) ==
    IF rows = <<>> THEN <<>>
    ELSE IF Head(rows)[1] = p THEN <<Head(rows)[2]>> \o RowsOf(Tail(rows), p)
         ELSE RowsOf(Tail(rows), p)

\* The like relation of photo p: the embedded array photo.likes (mongo), the
\* rows of photo_likes (mysql).
LikesOf(p) ==
    IF variant = "mongo"
    THEN IF PhotoExists(p) THEN photos[p].likes ELSE <<>>
    ELSE RowsOf(photo_likes, p)

AllLikes == [p \in PhotoParams |-> LikesOf(p)]

\* bcrypt.hash(password, 10) and bcrypt.compare(password, hash)
BcryptHash(password) == <<"bcrypt", password>>
BcryptCompare(password, hash) == hash = BcryptHash(password)

\* User.findOne({$or: [{email}, {username}]}) /
\* SELECT ... FROM users WHERE email = ? OR username = ?
UsersMatching(email, username) ==
    {u \in 1..Len(users) : users[u].email = email \/ users[u].username = username}

\* faulty variant: only the username carries a unique index
MongoUsersDuplicateKeyUsernameOnly(username, email) ==
    \E u \in 1..Len(users) : users[u].username = username

\* userSchema: username and email are `unique: true`; User.create rejects
\* with E11000 when either index already holds the value.
MongoUsersDuplicateKey(username, email) ==
    \E u \in 1..Len(users) :
        users[u].username = username \/ users[u].email = email

\* Table users: UNIQUE keys on username and on email; the INSERT fails with
\* ER_DUP_ENTRY when either already holds the value.
MysqlUsersDuplicateKey(username, email) ==
    \E u \in 1..Len(users) :
        users[u].username = username \/ users[u].email = email

UsersDuplicateKey(username, email) ==
    IF variant = "mongo" THEN MongoUsersDuplicateKey(username, email)
    ELSE MysqlUsersDuplicateKey(username, email)

\* -------------------------------------------------------------- history
\* hist follows the like / unlike requests that ran from their first to their
\* last step with no step of another request in between: `before` is the like
\* relation when the first of them started, `done` holds one entry per request
\* answered (at most two consecutive likes of the same user and photo).
HistNone ==
    [kind |-> "", slot |-> 0, user |-> 0, photo |-> 0, before |-> <<>>,
     done |-> <<>>]

HistEntry(status, count, after) ==
    [status |-> status, count |-> count, after |-> after]

\* a like / unlike request by `user` on `photo` starts in slot s
HistBegin(s, kind, user, photo, before) ==
    IF kind = "like" /\ hist.kind = "like" /\ hist.slot = 0
       /\ hist.user = user /\ hist.photo = photo /\ Len(hist.done) = 1
    THEN [hist EXCEPT !.slot = s]
    ELSE [kind |-> kind, slot |-> s, user |-> user, photo |-> photo,
          before |-> before, done |-> <<>>]

\* the request of slot s is answered
HistEnd(h, s, status, count, after) ==
    IF h.slot = s
    THEN [h EXCEPT !.slot = 0, !.done = Append(@, HistEntry(status, count, after))]
    ELSE HistNone

\* the request of slot s takes a step without being answered
HistStep(s) == IF hist.slot = s THEN hist ELSE HistNone

\* ------------------------------------------------------------------- Init
\* The users registered before the photo requests of Spec arrive: user i has
\* registered with username and email SeedNames[i] (reached by register, see
\* SpecUsers).
SeedNames == <<"n1", "n2", "n3", "n4">>
SeedUsers ==
    [i \in 1..MaxUsers |-> [username |-> SeedNames[i], email |-> SeedNames[i],
                            passwordHash |-> <<"bcrypt", "p1">>]]

InitStore(seed) ==
    /\ variant \in {"mongo", "mysql"}
    /\ users = seed
    /\ photos = <<>>
    /\ photo_likes = <<>>
    /\ comments = <<>>
    /\ reqs = [s \in Slots |-> IdleSlot]
    /\ last = NoAnswer
    /\ listed = NotListed
    /\ nreq = 0
    /\ hist = HistNone

Init == InitStore(SeedUsers)

\* the server right after start, with an empty store
InitUsers == InitStore(<<>>)

\* --------------------------------------------------------- POST /auth/register
\* "" stands for a field that is missing or empty (falsy).
RegisterCheck(s) ==
    \E username \in Names \cup {""}, email \in Names \cup {""},
       password \in Passwords \cup {""} :
        /\ Free(s)
        /\ nreq' = nreq + 1
        /\ hist' = HistNone
        /\ UNCHANGED <<listed, variant, users, photos, photo_likes, comments>>
        /\ LET args == <<username, email, password>> IN
           IF username = "" \/ email = "" \/ password = ""
           THEN /\ last' = Answer("register", <<>>, 0, 0, args, 400,
                                  "username, email, password kotelezo", 0)
                /\ reqs' = reqs
           ELSE IF UsersMatching(email, username) # {}
           THEN /\ last' = Answer("register", <<>>, 0, 0, args, 409,
                                  "A felhasznalo mar letezik", 0)
                /\ reqs' = reqs
           ELSE /\ Len(users) + InFlight("reg_insert") < MaxUsers
                /\ last' = last
                /\ reqs' = Suspend(s, "register", <<>>, 0, 0, args,
                                   "reg_insert", <<>>, 0)

\* bcrypt.hash, then User.create / INSERT INTO users; a rejected insert is
\* caught by the handler's catch block: 500.
RegisterInsert(s) ==
    /\ reqs[s].pc = "reg_insert"
    /\ hist' = HistNone
    /\ UNCHANGED <<listed, variant, photos, photo_likes, comments, nreq>>
    /\ reqs' = Release(s)
    /\ LET username == reqs[s].args[1]
           email == reqs[s].args[2]
           password == reqs[s].args[3]
       IN IF UsersDuplicateKey(username, email)
          THEN /\ users' = users
               /\ last' = Finish(s, 500, "Szerver hiba", 0)
          ELSE /\ users' = Append(users, [username |-> username, email |-> email,
                                         passwordHash |-> BcryptHash(password)])
               /\ last' = [Finish(s, 201, "user", 0) EXCEPT !.userId = Len(users) + 1]

\* ------------------------------------------------------------ POST /auth/login
\* faulty variant: an unknown identifier is answered 404
LoginNoUserRevealing == [status |-> 404, body |-> "Nincs ilyen felhasznalo"]

\* line 131 / 115-116: the answer when no user matches the identifier
LoginNoUser == [status |-> 401, body |-> "Hibas belepesi adatok"]

\* line 134 / 121: the answer when bcrypt.compare fails
LoginBadPassword == [status |-> 401, body |-> "Hibas belepesi adatok"]

\* The answer of the login handler when findOne / LIMIT 1 returned row `found`
\* (0: no row).
LoginAnswer(found, emailOrUsername, password) ==
    IF emailOrUsername = "" \/ password = ""
    THEN [status |-> 400, body |-> "emailOrUsername es password kotelezo"]
    ELSE IF found = 0 THEN LoginNoUser
    ELSE IF ~BcryptCompare(password, users[found].passwordHash)
         THEN LoginBadPassword
         ELSE [status |-> 200, body |-> JwtSign(found)]

\* The rows findOne / LIMIT 1 may return: any matching row when several match
\* (one user's email may be another's username), 0 when none does.
LoginFound(emailOrUsername) ==
    IF UsersMatching(emailOrUsername, emailOrUsername) = {} THEN {0}
    ELSE UsersMatching(emailOrUsername, emailOrUsername)

Login(s) ==
    \E emailOrUsername \in Names \cup {""}, password \in Passwords \cup {""} :
      \E found \in LoginFound(emailOrUsername) :
        /\ Free(s)
        /\ nreq' = nreq + 1
        /\ hist' = HistNone
        /\ UNCHANGED <<listed, variant, users, photos, photo_likes, comments, reqs>>
        /\ LET a == LoginAnswer(found, emailOrUsername, password) IN
           last' = Answer("login", <<>>, found, 0,
                          <<emailOrUsername, password>>, a.status, a.body, 0)

\* ---------------------------------------------------------------- POST /photos
\* created_at / timestamps: the clock reading at the insert, which is that of
\* the photo stored last or a later one (two inserts may fall in one tick).
UploadTimes ==
    LET t == IF photos = <<>> THEN 0 ELSE photos[Len(photos)].createdAt
    IN t..Min(t + 1, MaxClock)

Upload(s) ==
    \E hdr \in Headers, hasFile \in BOOLEAN :
        /\ Free(s)
        /\ nreq' = nreq + 1
        /\ hist' = HistNone
        /\ UNCHANGED <<listed, variant, users, photo_likes, comments, reqs>>
        /\ LET auth == authRequired(hdr) IN
           IF ~auth.ok
           THEN /\ photos' = photos
                /\ last' = Answer("upload", hdr, 0, 0, <<>>,
                                  auth.status, auth.body, 0)
           ELSE IF ~hasFile
           THEN /\ photos' = photos
                /\ last' = Answer("upload", hdr, auth.userId, 0, <<>>,
                                  400, "Hianyzo image fajl", 0)
           ELSE /\ Len(photos) < MaxPhotos
                /\ \E now \in UploadTimes :
                      photos' = Append(photos, [owner |-> auth.userId,
                                                createdAt |-> now,
                                                likes |-> <<>>, v |-> 0])
                /\ last' = Answer("upload", hdr, auth.userId,
                                  Len(photos) + 1, <<>>, 201, "photo", 0)

\* ------------------------------------------------------ POST /photos/:id/like
\* photo.likes.some((userId) => userId.toString() === req.userId)
MongoHasLiked(likes, userId) == \E i \in DOMAIN likes : likes[i] = userId

\* faulty variant: a plain INSERT into a table without the unique key
InsertIgnoreLikeAlways(rows, p, u) == Append(rows, <<p, u>>)

\* INSERT IGNORE INTO photo_likes (photo_id, user_id): the row is dropped when
\* the unique key (photo_id, user_id) already holds it.
InsertIgnoreLike(rows, p, u) ==
    IF \E i \in DOMAIN rows : rows[i] = <<p, u>> THEN rows
    ELSE Append(rows, <<p, u>>)

\* SELECT COUNT(*) FROM photo_likes WHERE photo_id = ?
CountLikes(rows, p) == Len(RowsOf(rows, p))

\* photo.save() after photo.likes.push(userId): Mongoose sends the change as
\* {$push: {likes: userId}, $inc: {__v: 1}}, applied to the stored array.
MongoSavePush(doc, userId) ==
    [doc EXCEPT !.likes = Append(@, userId), !.v = @ + 1]

\* The first step: authRequired, then Photo.findById / SELECT id FROM photos.
\* A request answered 401 never reads :id.
LikeStart(s) ==
    \E hdr \in Headers, p \in PhotoParams :
        /\ Free(s)
        /\ nreq' = nreq + 1
        /\ UNCHANGED <<listed, variant, users, photos, photo_likes, comments>>
        /\ LET auth == authRequired(hdr) IN
           IF ~auth.ok
           THEN /\ p = BadId
                /\ last' = Answer("like", hdr, 0, 0, <<>>,
                                  auth.status, auth.body, 0)
                /\ reqs' = reqs
                /\ hist' = HistNone
           ELSE IF variant = "mongo" /\ p = BadId
           THEN \* CastError, caught: 500
                /\ last' = Answer("like", hdr, auth.userId, p, <<>>,
                                  500, "Szerver hiba", 0)
                /\ reqs' = reqs
                /\ hist' = HistEnd(HistBegin(s, "like", auth.userId, p, AllLikes),
                                   s, 500, 0, AllLikes)
           ELSE IF ~PhotoExists(p)
           THEN /\ last' = Answer("like", hdr, auth.userId, p, <<>>,
                                  404, "Foto nem talalhato", 0)
                /\ reqs' = reqs
                /\ hist' = HistEnd(HistBegin(s, "like", auth.userId, p, AllLikes),
                                   s, 404, 0, AllLikes)
           ELSE IF variant = "mongo" /\ MongoHasLiked(photos[p].likes, auth.userId)
           THEN /\ last' = Answer("like", hdr, auth.userId, p, <<>>,
                                  200, "likesCount", Len(photos[p].likes))
                /\ reqs' = reqs
                /\ hist' = HistEnd(HistBegin(s, "like", auth.userId, p, AllLikes),
                                   s, 200, Len(photos[p].likes), AllLikes)
           ELSE /\ last' = last
                /\ reqs' = Suspend(s, "like", hdr, auth.userId, p, <<>>,
                        IF variant = "mongo" THEN "like_save" ELSE "like_insert",
                        IF variant = "mongo"
                        THEN Append(photos[p].likes, auth.userId) ELSE <<>>,
                        0)
                /\ hist' = HistBegin(s, "like", auth.userId, p, AllLikes)

\* mongo: await photo.save(), then res.json({likesCount: photo.likes.length})
\* with the handler's own copy of the array.
LikeSave(s) ==
    /\ reqs[s].pc = "like_save"
    /\ UNCHANGED <<listed, variant, users, photo_likes, comments, nreq>>
    /\ photos' = [photos EXCEPT ![reqs[s].photo] = MongoSavePush(@, reqs[s].userId)]
    /\ last' = Finish(s, 200, "likesCount", Len(reqs[s].local))
    /\ reqs' = Release(s)
    /\ hist' = HistEnd(hist, s, 200, Len(reqs[s].local), AllLikes')

\* mysql: INSERT IGNORE INTO photo_likes
LikeInsert(s) ==
    /\ reqs[s].pc = "like_insert"
    /\ UNCHANGED <<listed, variant, users, photos, comments, nreq, last>>
    /\ photo_likes' = InsertIgnoreLike(photo_likes, reqs[s].photo, reqs[s].userId)
    /\ reqs' = [reqs EXCEPT ![s].pc = "like_count"]
    /\ hist' = HistStep(s)

\* mysql: SELECT COUNT(*), then res.json({likesCount})
LikeCount(s) ==
    /\ reqs[s].pc = "like_count"
    /\ UNCHANGED <<listed, variant, users, photos, photo_likes, comments, nreq>>
    /\ last' = Finish(s, 200, "likesCount", CountLikes(photo_likes, reqs[s].photo))
    /\ reqs' = Release(s)
    /\ hist' = HistEnd(hist, s, 200, CountLikes(photo_likes, reqs[s].photo), AllLikes)

\* ---------------------------------------------------- DELETE /photos/:id/like
\* photo.likes.filter((userId) => userId.toString() !== req.userId)
MongoFilterLikes(likes, userId) == SelectSeq2(likes, userId)

\* faulty variant: DELETE without the user_id condition
DeleteLikeAnyUser(rows, p, u) == SelectSeq(rows, LAMBDA r : r[1] # p)

\* DELETE FROM photo_likes WHERE photo_id = ? AND user_id = ?
DeleteLike(rows, p, u) == SelectSeq(rows, LAMBDA r : r # <<p, u>>)

\* The first step.  mongo: authRequired, findById, the filter; assigning an
\* array equal to the stored one leaves the document unmodified and save()
\* writes nothing.  mysql: authRequired and the DELETE (no look at photos).
UnlikeStart(s) ==
    \E hdr \in Headers, p \in PhotoParams :
        /\ Free(s)
        /\ nreq' = nreq + 1
        /\ UNCHANGED <<listed, variant, users, photos, comments>>
        /\ LET auth == authRequired(hdr) IN
           IF ~auth.ok
           THEN /\ p = BadId
                /\ last' = Answer("unlike", hdr, 0, 0, <<>>,
                                  auth.status, auth.body, 0)
                /\ reqs' = reqs
                /\ photo_likes' = photo_likes
                /\ hist' = HistNone
           ELSE IF variant = "mysql"
           THEN /\ photo_likes' = DeleteLike(photo_likes, p, auth.userId)
                /\ last' = last
                /\ reqs' = Suspend(s, "unlike", hdr, auth.userId, p, <<>>,
                                   "unlike_count", <<>>, 0)
                /\ hist' = HistBegin(s, "unlike", auth.userId, p, AllLikes)
           ELSE /\ photo_likes' = photo_likes
                /\ IF p = BadId
                   THEN \* CastError, caught: 500
                        /\ last' = Answer("unlike", hdr, auth.userId, p, <<>>,
                                          500, "Szerver hiba", 0)
                        /\ reqs' = reqs
                        /\ hist' = HistEnd(HistBegin(s, "unlike", auth.userId, p, AllLikes),
                                           s, 500, 0, AllLikes)
                   ELSE IF ~PhotoExists(p)
                   THEN /\ last' = Answer("unlike", hdr, auth.userId, p, <<>>,
                                          404, "Foto nem talalhato", 0)
                        /\ reqs' = reqs
                        /\ hist' = HistEnd(HistBegin(s, "unlike", auth.userId, p, AllLikes),
                                           s, 404, 0, AllLikes)
                   ELSE LET kept == MongoFilterLikes(photos[p].likes, auth.userId) IN
                        IF kept = photos[p].likes
                        THEN /\ last' = Answer("unlike", hdr, auth.userId, p, <<>>,
                                               200, "likesCount", Len(kept))
                             /\ reqs' = reqs
                             /\ hist' = HistEnd(HistBegin(s, "unlike", auth.userId, p, AllLikes),
                                                s, 200, Len(kept), AllLikes)
                        ELSE /\ last' = last
                             /\ reqs' = Suspend(s, "unlike", hdr, auth.userId, p, <<>>,
                                                "unlike_save", kept, photos[p].v)
                             /\ hist' = HistBegin(s, "unlike", auth.userId, p, AllLikes)

\* mongo: await photo.save() after photo.likes = <filtered array>: Mongoose
\* sends {$set: {likes}, $inc: {__v: 1}} with the condition __v = <version
\* read>; when no document matches, save() rejects with VersionError, which
\* the catch block answers with 500.
UnlikeSave(s) ==
    /\ reqs[s].pc = "unlike_save"
    /\ UNCHANGED <<listed, variant, users, photo_likes, comments, nreq>>
    /\ reqs' = Release(s)
    /\ IF photos[reqs[s].photo].v = reqs[s].ver
       THEN /\ photos' = [photos EXCEPT ![reqs[s].photo] =
                            [@ EXCEPT !.likes = reqs[s].local, !.v = @ + 1]]
            /\ last' = Finish(s, 200, "likesCount", Len(reqs[s].local))
            /\ hist' = HistEnd(hist, s, 200, Len(reqs[s].local), AllLikes')
       ELSE /\ photos' = photos
            /\ last' = Finish(s, 500, "Szerver hiba", 0)
            /\ hist' = HistEnd(hist, s, 500, 0, AllLikes)

\* mysql: SELECT COUNT(*), then res.json({likesCount})
UnlikeCount(s) ==
    /\ reqs[s].pc = "unlike_count"
    /\ UNCHANGED <<listed, variant, users, photos, photo_likes, comments, nreq>>
    /\ last' = Finish(s, 200, "likesCount", CountLikes(photo_likes, reqs[s].photo))
    /\ reqs' = Release(s)
    /\ hist' = HistEnd(hist, s, 200, CountLikes(photo_likes, reqs[s].photo), AllLikes)

\* ------------------------------------------------- POST /photos/:id/comments
\* Photo.findById(req.params.id) / SELECT id FROM photos WHERE id = ? found a
\* photo
CommentPhotoFound(p) == PhotoExists(p)

\* "" stands for a text that is missing or empty (falsy).
CommentStart(s) ==
    \E hdr \in Headers, p \in PhotoParams, text \in Texts \cup {""} :
        /\ Free(s)
        /\ nreq' = nreq + 1
        /\ hist' = HistNone
        /\ UNCHANGED <<listed, variant, users, photos, photo_likes, comments>>
        /\ LET auth == authRequired(hdr) IN
           IF ~auth.ok
           THEN /\ p = BadId
                /\ text = ""
                /\ last' = Answer("comment", hdr, 0, 0, <<>>,
                                  auth.status, auth.body, 0)
                /\ reqs' = reqs
           ELSE IF text = ""
           THEN /\ last' = Answer("comment", hdr, auth.userId, p, <<text>>,
                                  400, "text kotelezo", 0)
                /\ reqs' = reqs
           ELSE IF variant = "mongo" /\ p = BadId
           THEN \* CastError, caught: 500
                /\ last' = Answer("comment", hdr, auth.userId, p, <<text>>,
                                  500, "Szerver hiba", 0)
                /\ reqs' = reqs
           ELSE IF ~CommentPhotoFound(p)
           THEN /\ last' = Answer("comment", hdr, auth.userId, p, <<text>>,
                                  404, "Foto nem talalhato", 0)
                /\ reqs' = reqs
           ELSE /\ Len(comments) + InFlight("comment_insert") < MaxComments
                /\ last' = last
                /\ reqs' = Suspend(s, "comment", hdr, auth.userId, p, <<text>>,
                                   "comment_insert", <<>>, 0)

\* Comment.create / INSERT INTO comments, then the answer 201
CommentInsert(s) ==
    /\ reqs[s].pc = "comment_insert"
    /\ hist' = HistNone
    /\ UNCHANGED <<listed, variant, users, photos, photo_likes, nreq>>
    /\ comments' = Append(comments, [photo |-> reqs[s].photo,
                                     author |-> reqs[s].userId,
                                     text |-> reqs[s].args[1]])
    /\ last' = Finish(s, 201, "comment", 0)
    /\ reqs' = Release(s)

\* ----------------------------------------------------------------- GET /photos
\* A query value is a string, given as the sequence of its characters; <<>>
\* stands for a parameter that is absent (or empty): both are falsy.
Digits == <<"0", "1", "2", "3", "4", "5", "6", "7", "8", "9">>
IsDigit(c) == \E d \in DOMAIN Digits : Digits[d] = c
DigitVal(c) == (CHOOSE d \in DOMAIN Digits : Digits[d] = c) - 1

RECURSIVE SkipSpaces(_, _)
SkipSpaces(str, i) ==
    IF i <= Len(str) /\ str[i] = " " THEN SkipSpaces(str, i + 1) ELSE i

RECURSIVE ParseDigits(_, _, _, _)
ParseDigits(str, i, acc, seen) ==
    IF i <= Len(str) /\ IsDigit(str[i])
    THEN ParseDigits(str, i + 1, acc * 10 + DigitVal(str[i]), TRUE)
    ELSE IF seen THEN Num(acc) ELSE NaN

\* parseInt(str, 10): leading white space is skipped, then an optional sign,
\* then the longest run of decimal digits; NaN when there is no digit.
ParseInt(str) ==
    LET i == SkipSpaces(str, 1)
        signed == i <= Len(str) /\ str[i] \in {"-", "+"}
        r == ParseDigits(str, IF signed THEN i + 1 ELSE i, 0, FALSE)
    IN IF r.nan THEN NaN
       ELSE IF signed /\ str[i] = "-" THEN Num(0 - r.val) ELSE r

\* req.query.page || "1"
QueryOr(q, dflt) == IF q = <<>> THEN dflt ELSE q

\* faulty variant: skip computed from a 0-based page
ListSkipZeroBased(page, limit) == page * limit

\* const skip = (page - 1) * limit
ListSkip(page, limit) == (page - 1) * limit

\* .sort({createdAt: -1}) / ORDER BY p.created_at DESC: every order of the
\* photo ids in S with the newer photo first; photos of equal createdAt come
\* in any order.
RECURSIVE NewestFirst(_)
NewestFirst(S) ==
    IF S = {} THEN {<<>>}
    ELSE UNION {{<<x>> \o o : o \in NewestFirst(S \ {x})} :
                  x \in {y \in S : \A z \in S : photos[z].createdAt <= photos[y].createdAt}}

\* .skip(skip).limit(limit) / LIMIT ? OFFSET ?
Slice(order, skip, limit) ==
    IF skip >= Len(order) THEN <<>>
    ELSE SubSeq(order, skip + 1, Min(Len(order), skip + limit))

ListError == [status |-> 500, total |-> 0, items |-> <<>>]
ListOk(items) == [status |-> 200, total |-> Len(photos), items |-> items]

\* The answers of GET /photos for the parsed page and limit.
\*  - mysql: the numbers are written into LIMIT ? OFFSET ?; NaN or a negative
\*    number there is a syntax error, caught: 500.
\*  - mongo: a negative skip is rejected by the server: 500.  A NaN skip or
\*    limit is dropped by some driver versions (the query then runs without
\*    it) and rejected by others: either outcome.  limit(0) means no limit.
ListOutcomes(page, limit) ==
    IF page.nan \/ limit.nan
    THEN IF variant = "mysql" THEN {ListError}
         ELSE {ListError} \cup
              {ListOk(Slice(o, 0, IF limit.nan \/ limit.val = 0
                                  THEN Len(photos) ELSE limit.val)) :
                  o \in NewestFirst(DOMAIN photos)}
    ELSE LET skip == ListSkip(page.val, limit.val) IN
         IF skip < 0 \/ limit.val < 0 THEN {ListError}
         ELSE {ListOk(Slice(o, skip, IF variant = "mongo" /\ limit.val = 0
                                     THEN Len(photos) ELSE limit.val)) :
                  o \in NewestFirst(DOMAIN photos)}

\* The values of the query parameters page and limit that clients send:
\* absent, "1", "2", "3", "5", "abc", "2x", "0".
QueryValues ==
    {<<>>, <<"1">>, <<"2">>, <<"3">>, <<"5">>, <<"a", "b", "c">>,
     <<"2", "x">>, <<"0">>}

\* The whole handler: it only reads, and the items (each with its owner, who
\* is stored, and its like count) and the total are read from one store state
\* when no other request runs.  The client sends it when it has read the
\* answer of the one before.
ListPhotos ==
    /\ listed = NotListed
    /\ \E pageQ \in QueryValues, limitQ \in QueryValues :
        LET page == ParseInt(QueryOr(pageQ, <<"1">>))
            limit == ParseInt(QueryOr(limitQ, <<"1", "0">>))
        IN \E out \in ListOutcomes(page, limit) :
              /\ listed' = [query |-> <<pageQ, limitQ>>, status |-> out.status,
                            page |-> page, limit |-> limit,
                            total |-> out.total, items |-> out.items]
              /\ UNCHANGED <<variant, users, photos, photo_likes, comments,
                             reqs, last, nreq, hist>>

\* The client has read the answer of GET /photos.
ListAnswerRead ==
    /\ listed # NotListed
    /\ listed' = NotListed
    /\ UNCHANGED <<variant, users, photos, photo_likes, comments,
                   reqs, last, nreq, hist>>

\* The photo collections GET /photos is checked on: n photos uploaded by
\* user 1 one after the other, at most MaxTies of them in the same clock tick
\* as the one before.
RECURSIVE ListTimes(_, _)
ListTimes(n, ties) ==
    IF n = 0 THEN <<>>
    ELSE IF n = 1 THEN <<0>>
    ELSE LET t == ListTimes(n - 1, ties) IN
         Append(t, IF (n - 1) \in ties THEN t[n - 1] ELSE t[n - 1] + 1)

ListPhotoSets ==
    {[i \in 1..n |-> [owner |-> 1, createdAt |-> ListTimes(n, ties)[i],
                      likes |-> <<>>, v |-> 0]] :
        <<n, ties>> \in {nt \in (0..MaxListPhotos) \X SUBSET (1..(MaxListPhotos - 1)) :
                           /\ Cardinality(nt[2]) <= MaxTies
                           /\ \A t \in nt[2] : t < nt[1]}}

InitList ==
    /\ variant \in {"mongo", "mysql"}
    /\ users = SeedUsers
    /\ photos \in ListPhotoSets
    /\ photo_likes = <<>>
    /\ comments = <<>>
    /\ reqs = [s \in Slots |-> IdleSlot]
    /\ last = NoAnswer
    /\ listed = NotListed
    /\ nreq = 0
    /\ hist = HistNone

\* ------------------------------------------------------------------- Next
\* Spec: the photo, like and comment requests of registered users.
Next ==
    \E s \in Slots :
        \/ Upload(s)
        \/ LikeStart(s)
        \/ LikeSave(s)
        \/ LikeInsert(s)
        \/ LikeCount(s)
        \/ UnlikeStart(s)
        \/ UnlikeSave(s)
        \/ UnlikeCount(s)
        \/ CommentStart(s)
        \/ CommentInsert(s)

Spec == Init /\ [][Next]_vars

\* SpecUsers: the register and login requests, from an empty store.
NextUsers ==
    \E s \in Slots :
        \/ RegisterCheck(s)
        \/ RegisterInsert(s)
        \/ Login(s)

SpecUsers == InitUsers /\ [][NextUsers]_vars

\* SpecList: GET /photos on the stored photo collections of InitList.
NextList == ListPhotos \/ ListAnswerRead

SpecList == InitList /\ [][NextList]_vars

\* ====================================================================
\* Claims
\* ====================================================================

\* C1: in every reachable state, whatever the interleaving of like and unlike
\* requests, a (user, photo) pair appears at most once in the photo's like
\* relation, and a likesCount that is returned never counts a user twice (it
\* does not exceed the number of users).
C1_LikeAtMostOnce ==
    /\ \A p \in PhotoParams : NoDup(LikesOf(p))
    /\ (last.kind \in {"like", "unlike"} /\ last.status = 200)
          => last.count <= Len(users)

\* C1 restricted to the MySQL build, where it holds (INSERT IGNORE on the
\* unique key): the failure is the Mongoose build's.
C1_MysqlLikeAtMostOnce == variant = "mysql" => C1_LikeAtMostOnce

\* C2: in every reachable state no two stored users share a username and no
\* two stored users share an email, also when registrations race between
\* their existence check and their insert.
C2_UsersUnique ==
    \A i, j \in DOMAIN users :
        i # j => /\ users[i].username # users[j].username
                 /\ users[i].email # users[j].email

\* C2 witness: two registrations raced; the one that inserted second was
\* rejected by the store and a user is stored.
C2_Witness ==
    /\ Len(users) >= 1
    /\ last.kind = "register"
    /\ last.status = 500

\* A register request with the three fields `args` is answered in this step:
\* by its first step, or by the insert of a suspended handler.
RegisterAnsweredNow(args) ==
    /\ last'.kind = "register"
    /\ last'.args = args
    /\ \/ nreq' = nreq + 1 /\ reqs' = reqs
       \/ \E s \in Slots : /\ reqs[s].pc = "reg_insert"
                           /\ reqs[s].args = args
                           /\ reqs'[s].pc = "idle"

\* C3: a register request with all three fields present whose username or
\* email is held by a stored user when the request is answered is answered
\* 409 and adds no user, also when only the store's unique key detects the
\* collision.
C3_DuplicateAnswered409 ==
    [][\A args \in Names \X Names \X Passwords :
          (RegisterAnsweredNow(args) /\ UsersMatching(args[2], args[1]) # {})
             => (last'.status = 409 /\ users' = users)]_vars

\* C5: a login naming an existing user with a wrong password and a login
\* naming an identifier that matches no user get the same answer (status 401,
\* same body), and neither answer carries a token.
C5_LoginNoExistenceLeak ==
    \A id1 \in Names, id2 \in Names, pw1 \in Passwords, pw2 \in Passwords :
      \A found \in LoginFound(id1) :
        (/\ found # 0
         /\ ~BcryptCompare(pw1, users[found].passwordHash)
         /\ UsersMatching(id2, id2) = {})
        => /\ LoginAnswer(found, id1, pw1) = LoginAnswer(0, id2, pw2)
           /\ LoginAnswer(found, id1, pw1).status = 401
           /\ LoginAnswer(found, id1, pw1).body \notin Range(TokenNames)

\* C5 witness: a login that found a user and failed on the password has been
\* answered while some identifier matches no user.
C5_Witness ==
    /\ last.kind = "login"
    /\ last.userId # 0
    /\ last.status = 401
    /\ \E id2 \in Names : UsersMatching(id2, id2) = {}

\* The protected operations: their routes name authRequired.
Protected == {"upload", "like", "unlike", "comment"}

\* The user a header authenticates: the header has the form Bearer <token>
\* (the word Bearer, one space, one word) and the token is the one issued to a
\* stored user; 0 when the header is absent, malformed or its token is not
\* such a token.
HeaderUser(hdr) ==
    IF /\ Len(hdr) = 3
       /\ hdr[1] = "Bearer"
       /\ hdr[2] = " "
       /\ \E u \in 1..Len(users) : JwtSign(u) = hdr[3]
    THEN CHOOSE u \in 1..Len(users) : JwtSign(u) = hdr[3]
    ELSE 0

\* C4: a request for a protected operation whose Authorization header is
\* absent, malformed (not of the form Bearer <token>) or carries a token that
\* fails verification is answered 401 and leaves users, photos, likes and
\* comments unchanged; a handler body runs (the request is suspended in it, or
\* answered by it) only with req.userId the user of a verified token.
C4_GuardedByBearerToken ==
    /\ [](/\ \A s \in Slots :
               reqs[s].kind \in Protected
                  => /\ HeaderUser(reqs[s].hdr) # 0
                     /\ reqs[s].userId = HeaderUser(reqs[s].hdr)
          /\ (last.kind \in Protected /\ HeaderUser(last.hdr) = 0)
                => last.status = 401
          /\ (last.kind \in Protected /\ last.status # 401)
                => last.userId = HeaderUser(last.hdr))
    /\ [][(/\ nreq' = nreq + 1
           /\ reqs' = reqs
           /\ last'.kind \in Protected
           /\ last'.status = 401) => db' = db]_vars

\* What holds of the guard as coded: the request is refused unless the second
\* space-separated field of the header is a verified token, whatever the first
\* field is; a refused request changes nothing.
C4_GuardedBySecondField ==
    /\ [](/\ \A s \in Slots :
               reqs[s].kind \in Protected
                  => /\ authRequired(reqs[s].hdr).ok
                     /\ reqs[s].userId = authRequired(reqs[s].hdr).userId
          /\ (last.kind \in Protected /\ ~authRequired(last.hdr).ok)
                => last.status = 401)
    /\ [][(/\ nreq' = nreq + 1
           /\ reqs' = reqs
           /\ last'.kind \in Protected
           /\ last'.status = 401) => db' = db]_vars

\* C6: for an existing photo, a second like by the same user that follows the
\* first with no step of another request in between is answered 200, leaves
\* every like relation as the first like left it and returns the count the
\* first returned; from a photo with no likes that count is 1.
C6_LikeIdempotent ==
    (hist.kind = "like" /\ Len(hist.done) = 2 /\ PhotoExists(hist.photo))
       => /\ hist.done[1].status = 200
          /\ hist.done[2].status = 200
          /\ hist.done[2].after = hist.done[1].after
          /\ hist.done[2].count = hist.done[1].count
          /\ hist.before[hist.photo] = <<>> => hist.done[2].count = 1

\* C6 witness: two consecutive likes of one user on a photo that had no like
\* have both been answered.
C6_Witness ==
    /\ hist.kind = "like"
    /\ Len(hist.done) = 2
    /\ PhotoExists(hist.photo)
    /\ hist.before[hist.photo] = <<>>
    /\ hist.done[2].count = 1

\* C6 witness for a photo another user already likes
C6_WitnessLiked ==
    /\ hist.kind = "like"
    /\ Len(hist.done) = 2
    /\ PhotoExists(hist.photo)
    /\ hist.before[hist.photo] # <<>>
    /\ hist.done[2].count = 2

\* C7: an unlike by an authenticated user who holds no like on the addressed
\* photo id, run with no step of another request in between, is answered 200,
\* leaves the like relation of every photo unchanged and returns the count
\* the addressed photo had before.
C7_UnlikeNotLikedSucceeds ==
    (/\ hist.kind = "unlike"
     /\ Len(hist.done) = 1
     /\ \A i \in DOMAIN hist.before[hist.photo] :
            hist.before[hist.photo][i] # hist.user)
       => /\ hist.done[1].status = 200
          /\ hist.done[1].after = hist.before
          /\ hist.done[1].count = Len(hist.before[hist.photo])

\* C7 restricted to photo ids that exist, where both builds satisfy it
C7_UnlikeNotLikedExistingPhoto ==
    PhotoExists(hist.photo) => C7_UnlikeNotLikedSucceeds

\* C7 restricted to the MySQL build, which satisfies it for every id
C7_MysqlUnlikeNotLiked == variant = "mysql" => C7_UnlikeNotLikedSucceeds

\* Every stored comment and every stored like refers to a stored photo.
ReferencesExist ==
    /\ \A i \in DOMAIN comments : PhotoExists(comments[i].photo)
    /\ \A p \in PhotoParams : LikesOf(p) # <<>> => PhotoExists(p)

\* C8: every stored comment and like refers to a photo that exists, and a
\* like or a create-comment request (with a text) of an authenticated user
\* addressed to an id that is no stored photo's is answered 404.
C8_NoDanglingReference ==
    /\ ReferencesExist
    /\ (/\ last.kind \in {"like", "comment"}
        /\ last.status # 401
        /\ last.kind = "comment" => last.args # <<"">>
        /\ ~PhotoExists(last.photo))
          => last.status = 404

\* C8 for ids that are well-formed (an ObjectId / a number), where both builds
\* satisfy it
C8_WellFormedIds ==
    /\ ReferencesExist
    /\ (/\ last.kind \in {"like", "comment"}
        /\ last.status # 401
        /\ last.kind = "comment" => last.args # <<"">>
        /\ last.photo # BadId
        /\ ~PhotoExists(last.photo))
          => last.status = 404


\* ------------------------------------------------------------ GET /photos
\* A query value that is a decimal numeral, and the number it writes.
IsDecimal(q) == q # <<>> /\ \A i \in DOMAIN q : IsDigit(q[i])

RECURSIVE DecimalValue(_)
DecimalValue(q) ==
    IF q = <<>> THEN 0
    ELSE 10 * DecimalValue(SubSeq(q, 1, Len(q) - 1)) + DigitVal(q[Len(q)])

\* Photo x may stand at rank r (1 = newest) of the stored photos: fewer than
\* r photos are newer than x and at least r are as new as x or newer.  Photos
\* of equal createdAt share their ranks.
NewerCount(x) ==
    Cardinality({y \in DOMAIN photos : photos[y].createdAt > photos[x].createdAt})

NotOlderCount(x) ==
    Cardinality({y \in DOMAIN photos : photos[y].createdAt >= photos[x].createdAt})

RankedAt(x, r) == NewerCount(x) < r /\ r <= NotOlderCount(x)

\* The items are the photos of ranks first..upto, in that order, cut at the
\* end of the collection.
ItemsAreRanks(items, first, upto) ==
    /\ Len(items) = Max(0, Min(upto, Len(photos)) - first + 1)
    /\ NoDup(items)
    /\ \A i \in DOMAIN items :
          items[i] \in DOMAIN photos /\ RankedAt(items[i], first + i - 1)

\* C9: for any stored photos and any page >= 1 and limit >= 1, GET /photos
\* answers 200 with exactly the photos ranked (page-1)*limit+1 .. page*limit
\* by recency, newest first (fewer or none past the end), and total is the
\* number of all stored photos whatever page and limit are.
C9_PageOfRanks ==
    (/\ listed # NotListed
     /\ IsDecimal(listed.query[1]) /\ DecimalValue(listed.query[1]) >= 1
     /\ IsDecimal(listed.query[2]) /\ DecimalValue(listed.query[2]) >= 1)
    => LET page == DecimalValue(listed.query[1])
           limit == DecimalValue(listed.query[2])
       IN /\ listed.status = 200
          /\ listed.total = Len(photos)
          /\ ItemsAreRanks(listed.items, (page - 1) * limit + 1, page * limit)

\* C9 witness: page=2, limit=5 on at least 10 photos, two of them uploaded in
\* the same tick, answered with five photos.
C9_Witness ==
    /\ listed.query = << <<"2">>, <<"5">> >>
    /\ Len(photos) >= 10
    /\ \E x, y \in DOMAIN photos : x # y /\ photos[x].createdAt = photos[y].createdAt
    /\ listed.status = 200
    /\ Len(listed.items) = 5
    /\ listed.total = Len(photos)

\* C9 witness: a page past the end is answered with no photo and the total.
C9_WitnessPastEnd ==
    /\ listed.query = << <<"3">>, <<"5">> >>
    /\ Len(photos) = 10
    /\ listed.status = 200
    /\ listed.items = <<>>
    /\ listed.total = 10

\* A parameter that is unspecified or holds no integer at all (no digit), and
\* one the handler can use: such a one, or a numeral of a number >= 1.
HoldsNoInteger(q) == \A i \in DOMAIN q : ~IsDigit(q[i])

Usable(q) == HoldsNoInteger(q) \/ (IsDecimal(q) /\ DecimalValue(q) >= 1)

\* C10: GET /photos uses page 1 whenever the page parameter is unspecified or
\* is not an integer, and limit 10 whenever the limit parameter is unspecified
\* or is not an integer; the answer then is 200 and reports these values, and
\* with both defaulted it holds the first 10 photos by recency.
C10_DefaultsWhenUnparsable ==
    (listed # NotListed /\ Usable(listed.query[1]) /\ Usable(listed.query[2])) =>
        LET pageDefaulted == HoldsNoInteger(listed.query[1])
            limitDefaulted == HoldsNoInteger(listed.query[2])
        IN /\ pageDefaulted => listed.status = 200 /\ listed.page = Num(DefaultPage)
           /\ limitDefaulted => listed.status = 200 /\ listed.limit = Num(DefaultLimit)
           /\ pageDefaulted /\ limitDefaulted =>
                 ItemsAreRanks(listed.items, 1, DefaultLimit)

\* C10, unspecified parameters only: an absent page is 1, an absent limit is
\* 10, and with both absent the answer is 200 with the first 10 photos.
C10_DefaultsWhenAbsent ==
    listed # NotListed =>
        /\ listed.query[1] = <<>> => listed.page = Num(DefaultPage)
        /\ listed.query[2] = <<>> => listed.limit = Num(DefaultLimit)
        /\ listed.query = << <<>>, <<>> >> =>
              /\ listed.status = 200
              /\ listed.total = Len(photos)
              /\ ItemsAreRanks(listed.items, 1, DefaultLimit)

\* C10, unspecified parameters: both absent on more than 10 photos, answered
\* with 10 of them.
C10_WitnessAbsent ==
    /\ listed.query = << <<>>, <<>> >>
    /\ Len(photos) > DefaultLimit
    /\ listed.status = 200
    /\ Len(listed.items) = DefaultLimit


\* ------------------------------------------- concurrent likes and unlikes
\* User u is in the like set of photo p.
Member(p, u) == \E i \in DOMAIN LikesOf(p) : LikesOf(p)[i] = u

\* The slots whose request takes the step.
Stepping == {s \in Slots : reqs'[s] # reqs[s]}

\* The step is one of a request of the given kind sent by user u for photo p.
StepOf(kind, p, u) ==
    \E s \in Stepping :
        \/ reqs[s].kind = kind /\ reqs[s].userId = u /\ reqs[s].photo = p
        \/ reqs'[s].kind = kind /\ reqs'[s].userId = u /\ reqs'[s].photo = p

\* C11: a user's like membership on a photo is changed only by that user's
\* own requests, in every interleaving of the steps of concurrent like and
\* unlike requests: a user enters the like set of a photo only by a step of
\* their own like of it and leaves it only by a step of their own unlike of
\* it (no request of another user removes or restores the like), and the
\* writing step of a like leaves its user in the set.
C11_OwnRequestsOnly ==
    [][/\ \A p \in PhotoParams, u \in DOMAIN users :
            /\ (~Member(p, u) /\ Member(p, u)') => StepOf("like", p, u)
            /\ (Member(p, u) /\ ~Member(p, u)') => StepOf("unlike", p, u)
            /\ (\E s \in Stepping :
                    /\ reqs[s].pc \in {"like_save", "like_insert"}
                    /\ reqs[s].photo = p /\ reqs[s].userId = u)
                  => Member(p, u)'
      ]_vars

\* C11 witness (mongo): the unlike of user a read the photo, the like of user
\* b was saved in between, and the save of the unlike was refused (500): both
\* are in the like set.
C11_Witness ==
    /\ variant = "mongo"
    /\ last.kind = "unlike" /\ last.status = 500
    /\ PhotoExists(last.photo)
    /\ \E b \in DOMAIN users :
          /\ b # last.userId
          /\ photos[last.photo].likes = <<last.userId, b>>

\* C11 witness (mysql): a like of user b and an unlike of user a of the same
\* photo are both past their write and not yet answered; b is in the like
\* set, a is not.
C11_WitnessMysql ==
    /\ variant = "mysql"
    /\ \E s, t \in Slots :
          /\ reqs[s].pc = "like_count" /\ reqs[t].pc = "unlike_count"
          /\ reqs[s].photo = reqs[t].photo
          /\ reqs[s].userId # reqs[t].userId
          /\ Member(reqs[s].photo, reqs[s].userId)
          /\ ~Member(reqs[t].photo, reqs[t].userId)

====
